---- MODULE Spec2Model ----
(***************************************************************************)
(* Two Arduino sketches that share one file: a paddle-ball game (PONG) and *)
(* an obstacle runner (Flappy Bird).  Each sketch is a setup() followed by *)
(* loop() called forever; one call of loop() is one tick.                  *)
(*                                                                         *)
(* The state of each sketch is a record whose fields carry the names of    *)
(* the sketch's globals.  The variable pong holds the paddle-ball globals, *)
(* the variable bird the obstacle runner's.                                *)
(*                                                                         *)
(* float quantities are kept as integers counted in units of 1/Scale, so   *)
(* 4.2 is 42 and the 0.3 of gravity is 3.  Sums and comparisons are exact  *)
(* on that grid; the one division of the code (the paddle spin, / 10.0)    *)
(* rounds its quotient to the grid, see Div10.                             *)
(***************************************************************************)
EXTENDS Integers, Sequences, FiniteSets, TLC

VARIABLES pong, bird, env

vars == <<pong, bird, env>>

\* Resolution of the fixed-point grid that stands for float: 1/10.
Scale == 10

\* ---- bounds of the model ------------------------------------------------
\* The variable env is the environment of the running sketch: whether the
\* last reading of the two switches found one active (the pin reads low) and,
\* per game, the counters that the bounds limit; idle counts the ticks of play
\* since the last flap of the game (since its start, if there was none).
\* PongSpec follows whole games of a player who steers during at most MaxMoves
\* ticks of a game and returns at most MaxSpins balls of a game.
MaxMoves == 1
MaxSpins == 1
\* PongRallySpec follows the first MaxTicks ticks of a game, the player
\* steering freely.
MaxTicks == 80
\* BirdSpec follows the first MaxFlight ticks of a game, of a player who
\* flaps only while the bird falls at MinFlapFall (in units of 1/Scale per
\* tick) or faster.
MaxFlight == 245
MinFlapFall == 40
\* BirdFallSpec follows a player who flaps freely during the first MaxClimb
\* ticks of a game and then lets the bird fall.
MaxClimb == 12
\* A call of random() is followed for at most MaxDraws of its results, spread
\* over its range and with both ends of the range among them.
MaxDraws == 2

\* ---- constants of the paddle-ball sketch ---------------------------------
SCREEN_WIDTH == 320
SCREEN_HEIGHT == 170
PADDLE_WIDTH == 80
PADDLE_HEIGHT == 10
PADDLE_Y_POS == SCREEN_HEIGHT - PADDLE_HEIGHT - 2
AI_PADDLE_Y_POS == 2
PADDLE_SPEED == 6
BALL_SIZE == 10
WINNING_SCORE == 5

\* An int constant of the code as a value of the grid.
F(n) == n * Scale

\* Mutant of AiStep: the factor 0.7 is forgotten.
AiStepFull == PADDLE_SPEED * Scale

\* AI step PADDLE_SPEED * 0.7 on the grid (0.7 is 7 units of 1/10).
AiStep == (PADDLE_SPEED * 7 * Scale) \div 10

\* random(lo, hi) of Arduino: any integer of [lo, hi - 1].
RandomRange(lo, hi) ==
    IF hi - lo <= MaxDraws
    THEN lo .. (hi - 1)
    ELSE { lo + ((hi - 1 - lo) * k) \div (MaxDraws - 1) : k \in 0 .. (MaxDraws - 1) }

\* random(hi) of Arduino: any integer of [0, hi - 1].
Random(hi) == RandomRange(0, hi)

\* C integer division, which truncates toward zero.
CDiv(a, b) == IF a >= 0 THEN a \div b ELSE -((-a) \div b)

\* x / 10.0 for x on the grid: the quotient, rounded to the grid toward zero.
Div10(x) == CDiv(x, 10)

\* Mutant of serveBall: the vertical speed takes the drawn magnitude.
serveBallVy(s, direction, mag, coin) ==
    [s EXCEPT !.ball_x = F(SCREEN_WIDTH \div 2),
              !.ball_y = F(SCREEN_HEIGHT \div 2),
              !.ball_vx = F(mag * (IF coin = 0 THEN 1 ELSE -1)),
              !.ball_vy = F(mag * direction)]

\* serveBall(direction): ball to the centre; mag is the draw random(2, 4),
\* coin the draw random(2) that signs the horizontal speed.
serveBall(s, direction, mag, coin) ==
    [s EXCEPT !.ball_x = F(SCREEN_WIDTH \div 2),
              !.ball_y = F(SCREEN_HEIGHT \div 2),
              !.ball_vx = F(mag * (IF coin = 0 THEN 1 ELSE -1)),
              !.ball_vy = F(3 * direction)]

\* Mutant of resetGame: aiScore is not reset.
resetGameKeepsAi(s, dirCoin, mag, coin) ==
    serveBall([s EXCEPT !.playerScore = 0,
                        !.player_x = F((SCREEN_WIDTH - PADDLE_WIDTH) \div 2),
                        !.ai_x = F((SCREEN_WIDTH - PADDLE_WIDTH) \div 2)],
              IF dirCoin = 0 THEN 1 ELSE -1, mag, coin)

\* resetGame(): dirCoin is the draw random(2) that picks the serve side.
resetGame(s, dirCoin, mag, coin) ==
    serveBall([s EXCEPT !.playerScore = 0,
                        !.aiScore = 0,
                        !.player_x = F((SCREEN_WIDTH - PADDLE_WIDTH) \div 2),
                        !.ai_x = F((SCREEN_WIDTH - PADDLE_WIDTH) \div 2)],
              IF dirCoin = 0 THEN 1 ELSE -1, mag, coin)

\* Mutant of Constrain: the right-hand limit is missing.
ConstrainLowOnly(x) == IF x < 0 THEN 0 ELSE x

\* Constrain a paddle to the screen (the two ifs after each paddle move).
Constrain(x) ==
    LET x1 == IF x < 0 THEN 0 ELSE x
    IN IF x1 > F(SCREEN_WIDTH - PADDLE_WIDTH) THEN F(SCREEN_WIDTH - PADDLE_WIDTH) ELSE x1

\* Player input: left and right are the two digitalRead results (TRUE: active).
MovePlayer(x, left, right) ==
    LET x1 == IF left THEN x - F(PADDLE_SPEED) ELSE x
        x2 == IF right THEN x1 + F(PADDLE_SPEED) ELSE x1
    IN Constrain(x2)

\* AI logic: two successive ifs against the target, then the constraint.
MoveAi(x, bx) ==
    LET target == bx - F(PADDLE_WIDTH \div 2)
        x1 == IF x < target THEN x + AiStep ELSE x
        x2 == IF x1 > target THEN x1 - AiStep ELSE x1
    IN Constrain(x2)

\* Mutant of WallContact: the right wall is taken at the screen's edge, the
\* ball's size forgotten.
WallContactNoSize(bx) == bx < 0 \/ bx > F(SCREEN_WIDTH)

\* The moved ball is in contact with the left or right wall.
WallContact(bx) == bx < 0 \/ bx > F(SCREEN_WIDTH - BALL_SIZE)

\* Condition of the player-paddle collision, on the moved ball.
PlayerContact(vy, bx, by, px) ==
    /\ vy > 0
    /\ by + F(BALL_SIZE) >= F(PADDLE_Y_POS)
    /\ bx + F(BALL_SIZE) > px
    /\ bx < px + F(PADDLE_WIDTH)

\* Condition of the AI-paddle collision, on the moved ball.
AiContact(vy, bx, by, ax) ==
    /\ vy < 0
    /\ by <= F(AI_PADDLE_Y_POS + PADDLE_HEIGHT)
    /\ bx + F(BALL_SIZE) > ax
    /\ bx < ax + F(PADDLE_WIDTH)

\* Mutant of WallBounce: the left wall is taken a ball's size too early.
WallBounceEarly(vx, bx) ==
    IF bx < F(BALL_SIZE) \/ bx > F(SCREEN_WIDTH - BALL_SIZE) THEN -vx ELSE vx

\* Wall collisions (left/right): the horizontal speed after the wall check.
WallBounce(vx, bx) == IF WallContact(bx) THEN -vx ELSE vx

\* Player paddle: the horizontal speed after the spin of a contact.
PlayerSpin(vx, hit, bx, px) ==
    IF hit THEN vx + Div10(bx - (px + F(PADDLE_WIDTH \div 2))) ELSE vx

\* Player paddle: the vertical speed after the bounce of a contact.
PlayerBounce(vy, hit) == IF hit THEN -vy ELSE vy

\* Mutant of AiBounce: the horizontal overlap is not tested.
AiBounceNoOverlap(vy, bx, by, ax) ==
    IF vy < 0 /\ by <= F(AI_PADDLE_Y_POS + PADDLE_HEIGHT) THEN -vy ELSE vy

\* AI paddle: the vertical speed after the AI-paddle check.
AiBounce(vy, bx, by, ax) == IF AiContact(vy, bx, by, ax) THEN -vy ELSE vy

\* Mutant of Scoring: the second test compares with the bottom edge.
ScoringBoth(s, mag, coin) ==
    LET s1 == IF s.ball_y > F(SCREEN_HEIGHT)
              THEN serveBall([s EXCEPT !.aiScore = @ + 1], -1, mag, coin)
              ELSE s
    IN IF s1.ball_y < F(SCREEN_HEIGHT)
       THEN serveBall([s1 EXCEPT !.playerScore = @ + 1], 1, mag, coin)
       ELSE s1

\* Scoring: the two successive ifs at the end of updateGameLogic.
Scoring(s, mag, coin) ==
    LET s1 == IF s.ball_y > F(SCREEN_HEIGHT)
              THEN serveBall([s EXCEPT !.aiScore = @ + 1], -1, mag, coin)
              ELSE s
    IN IF s1.ball_y < 0
       THEN serveBall([s1 EXCEPT !.playerScore = @ + 1], 1, mag, coin)
       ELSE s1

\* updateGameLogic() of the paddle-ball sketch.
PongUpdateGameLogic(s, left, right, mag, coin) ==
    LET px == MovePlayer(s.player_x, left, right)
        ax == MoveAi(s.ai_x, s.ball_x)
        bx == s.ball_x + s.ball_vx
        by == s.ball_y + s.ball_vy
        vx1 == WallBounce(s.ball_vx, bx)
        hitP == PlayerContact(s.ball_vy, bx, by, px)
        vy1 == PlayerBounce(s.ball_vy, hitP)
        vx2 == PlayerSpin(vx1, hitP, bx, px)
        vy2 == AiBounce(vy1, bx, by, ax)
    IN Scoring([s EXCEPT !.player_x = px, !.ai_x = ax,
                         !.ball_x = bx, !.ball_y = by,
                         !.ball_vx = vx2, !.ball_vy = vy2],
               mag, coin)

\* Mutant of WinCondition: > in place of >=.
WinConditionStrict(s) == s.playerScore > WINNING_SCORE \/ s.aiScore > WINNING_SCORE

\* Mutant of WinCondition: && in place of ||.
WinConditionBoth(s) == s.playerScore >= WINNING_SCORE /\ s.aiScore >= WINNING_SCORE

\* The win condition that loop() checks after updateGameLogic().
WinCondition(s) == s.playerScore >= WINNING_SCORE \/ s.aiScore >= WINNING_SCORE

\* Either switch reads active: !digitalRead(LEFT) || !digitalRead(RIGHT).
AnyActive(left, right) == left \/ right

\* Globals of the paddle-ball sketch before setup() runs (zero-initialised).
PongStatic ==
    [gameState |-> "START_SCREEN", pc |-> "off",
     player_x |-> 0, ai_x |-> 0, ball_x |-> 0, ball_y |-> 0,
     ball_vx |-> 0, ball_vy |-> 0, playerScore |-> 0, aiScore |-> 0]

\* setup() of the paddle-ball sketch: resetGame(), then the title screen.
PongSetup ==
    \E dirCoin \in Random(2), mag \in RandomRange(2, 4), coin \in Random(2) :
        pong = [resetGame(PongStatic, dirCoin, mag, coin)
                    EXCEPT !.gameState = "START_SCREEN", !.pc = "loop"]

\* The environment before the first tick: no switch read yet, counters at 0.
EnvZero == [active |-> FALSE, ticks |-> 0, moves |-> 0, spins |-> 0, idle |-> 0]

\* The environment after the switches read left and right.
Read(e, left, right) == [e EXCEPT !.active = AnyActive(left, right)]

\* The environment at the start of a game, the switches reading left and right.
NewGame(left, right) == Read(EnvZero, left, right)

\* The tick moves the ball past the top or bottom edge, so that serveBall()
\* runs and random() is called.
Serves(s) ==
    LET by == s.ball_y + s.ball_vy
    IN by > F(SCREEN_HEIGHT) \/ by < 0

\* The tick makes the ball touch the player's paddle.
HitsPlayer(s, left, right) ==
    PlayerContact(s.ball_vy, s.ball_x + s.ball_vx, s.ball_y + s.ball_vy,
                  MovePlayer(s.player_x, left, right))

\* loop(), case START_SCREEN.
PongStartScreen ==
    /\ pong.pc = "loop"
    /\ pong.gameState = "START_SCREEN"
    /\ \E left \in BOOLEAN, right \in BOOLEAN :
         IF AnyActive(left, right)
         THEN /\ \E dirCoin \in Random(2), mag \in RandomRange(2, 4), coin \in Random(2) :
                   pong' = [resetGame(pong, dirCoin, mag, coin)
                               EXCEPT !.gameState = "PLAYING", !.pc = "wait"]
              /\ env' = NewGame(left, right)
         ELSE /\ pong' = pong
              /\ env' = Read(env, left, right)
    /\ UNCHANGED bird

\* The busy-wait that follows an input-triggered transition: one evaluation
\* of its condition; the loop() call returns once both switches read inactive.
PongWaitRelease ==
    /\ pong.pc = "wait"
    /\ \E left \in BOOLEAN, right \in BOOLEAN :
         /\ pong' = [pong EXCEPT !.pc = IF AnyActive(left, right) THEN "wait" ELSE "loop"]
         /\ env' = Read(env, left, right)
    /\ UNCHANGED bird

\* loop(), case PLAYING, with the switches reading left and right:
\* updateGameLogic(), then the win condition.  random() is drawn only in a
\* tick that serves.
PongTick(left, right) ==
    \E mag \in (IF Serves(pong) THEN RandomRange(2, 4) ELSE {2}),
       coin \in (IF Serves(pong) THEN Random(2) ELSE {0}) :
        LET s == PongUpdateGameLogic(pong, left, right, mag, coin)
        IN pong' = [s EXCEPT !.gameState = IF WinCondition(s) THEN "GAME_OVER" ELSE @]

\* A tick of play of a whole game, within MaxMoves and MaxSpins.
PongPlaying ==
    /\ pong.pc = "loop"
    /\ pong.gameState = "PLAYING"
    /\ \E left \in BOOLEAN, right \in BOOLEAN :
         /\ PongTick(left, right)
         /\ env' = [Read(env, left, right) EXCEPT
                      !.moves = IF AnyActive(left, right) THEN @ + 1 ELSE @,
                      !.spins = IF HitsPlayer(pong, left, right) THEN @ + 1 ELSE @]
         /\ env'.moves <= MaxMoves
         /\ env'.spins <= MaxSpins
    /\ UNCHANGED bird

\* A tick of play among the first MaxTicks of a game.
PongRallyPlaying ==
    /\ pong.pc = "loop"
    /\ pong.gameState = "PLAYING"
    /\ env.ticks < MaxTicks
    /\ \E left \in BOOLEAN, right \in BOOLEAN :
         /\ PongTick(left, right)
         /\ env' = [Read(env, left, right) EXCEPT !.ticks = @ + 1]
    /\ UNCHANGED bird

\* Mutant of PongGameOver: the wait for the release is missing.
PongGameOverNoWait ==
    /\ pong.pc = "loop"
    /\ pong.gameState = "GAME_OVER"
    /\ \E left \in BOOLEAN, right \in BOOLEAN :
         IF AnyActive(left, right)
         THEN /\ \E dirCoin \in Random(2), mag \in RandomRange(2, 4), coin \in Random(2) :
                   pong' = [resetGame(pong, dirCoin, mag, coin)
                               EXCEPT !.gameState = "START_SCREEN", !.pc = "loop"]
              /\ env' = NewGame(left, right)
         ELSE /\ pong' = pong
              /\ env' = Read(env, left, right)
    /\ UNCHANGED bird

\* loop(), case GAME_OVER.
PongGameOver ==
    /\ pong.pc = "loop"
    /\ pong.gameState = "GAME_OVER"
    /\ \E left \in BOOLEAN, right \in BOOLEAN :
         IF AnyActive(left, right)
         THEN /\ \E dirCoin \in Random(2), mag \in RandomRange(2, 4), coin \in Random(2) :
                   pong' = [resetGame(pong, dirCoin, mag, coin)
                               EXCEPT !.gameState = "START_SCREEN", !.pc = "wait"]
              /\ env' = NewGame(left, right)
         ELSE /\ pong' = pong
              /\ env' = Read(env, left, right)
    /\ UNCHANGED bird

\* ---- the obstacle runner ------------------------------------------------
BIRD_X_POS == 60
BIRD_WIDTH == 20
BIRD_HEIGHT == 20
\* GRAVITY 0.3 and FLAP_VELOCITY -5.0 on the grid.
GRAVITY == (3 * Scale) \div 10
FLAP_VELOCITY == -5 * Scale
GROUND_HEIGHT == 10
PIPE_WIDTH == 40
PIPE_GAP_HEIGHT == 80
PIPE_SPEED == 2
PIPE_SPACING == 180
NUM_PIPES == 2

\* The pipe slots: the indices of pipes[NUM_PIPES].
Slots == 0 .. (NUM_PIPES - 1)

\* Mutant of GapDraws: the ground strip is forgotten in the upper limit.
GapDrawsNoGround ==
    RandomRange(PIPE_GAP_HEIGHT \div 2 + 20,
                SCREEN_HEIGHT - PIPE_GAP_HEIGHT \div 2 - 20)

\* The draws of a gap centre: random(PIPE_GAP_HEIGHT / 2 + 20,
\* SCREEN_HEIGHT - PIPE_GAP_HEIGHT / 2 - GROUND_HEIGHT - 20).
GapDraws ==
    RandomRange(PIPE_GAP_HEIGHT \div 2 + 20,
                SCREEN_HEIGHT - PIPE_GAP_HEIGHT \div 2 - GROUND_HEIGHT - 20)

\* Globals of the obstacle runner before setup() runs (zero-initialised but
\* for the initialisers of gameState, highScore and button_was_pressed).
BirdStatic ==
    [gameState |-> "START_SCREEN", pc |-> "off",
     bird_y |-> 0, bird_y_velocity |-> 0, score |-> 0, highScore |-> 0,
     button_was_pressed |-> FALSE,
     pipes |-> [i \in Slots |-> [x |-> 0, gap_y |-> 0, scored |-> FALSE]]]

\* Mutant of setupGame: the bird's velocity is not reset.
setupGameKeepVelocity(s, gaps) ==
    [s EXCEPT !.bird_y = F(SCREEN_HEIGHT \div 2),
              !.score = 0,
              !.pipes = [i \in Slots |->
                            [x |-> SCREEN_WIDTH + i * PIPE_SPACING,
                             gap_y |-> gaps[i],
                             scored |-> FALSE]]]

\* setupGame(): gaps[i] is the draw of random() for slot i.
setupGame(s, gaps) ==
    [s EXCEPT !.bird_y = F(SCREEN_HEIGHT \div 2),
              !.bird_y_velocity = 0,
              !.score = 0,
              !.pipes = [i \in Slots |->
                            [x |-> SCREEN_WIDTH + i * PIPE_SPACING,
                             gap_y |-> gaps[i],
                             scored |-> FALSE]]]

\* Handle input (flap): pressed is button_is_pressed.
Flap(s, pressed) ==
    [s EXCEPT !.bird_y_velocity = IF pressed /\ ~s.button_was_pressed
                                  THEN FLAP_VELOCITY ELSE @,
              !.button_was_pressed = pressed]

\* Mutant of Physics: the move comes before gravity.
PhysicsMoveFirst(s) ==
    [s EXCEPT !.bird_y = @ + s.bird_y_velocity,
              !.bird_y_velocity = @ + GRAVITY]

\* Bird physics: gravity, then the move.
Physics(s) ==
    LET v == s.bird_y_velocity + GRAVITY
    IN [s EXCEPT !.bird_y_velocity = v, !.bird_y = @ + v]

\* Slot i leaves the screen in this tick, so that the tick recycles it.
Recycles(s, i) == s.pipes[i].x - PIPE_SPEED < -PIPE_WIDTH

\* Mutant of MovePipe: recycling keeps the scored flag.
MovePipeKeepFlag(p, gap) ==
    LET x == p.x - PIPE_SPEED
    IN IF x < -PIPE_WIDTH
       THEN [x |-> SCREEN_WIDTH, gap_y |-> gap, scored |-> p.scored]
       ELSE [p EXCEPT !.x = x]

\* The move and the recycling of slot i; gap is the draw of random().
MovePipe(p, gap) ==
    LET x == p.x - PIPE_SPEED
    IN IF x < -PIPE_WIDTH
       THEN [x |-> SCREEN_WIDTH, gap_y |-> gap, scored |-> FALSE]
       ELSE [p EXCEPT !.x = x]

\* The scoring condition of a moved pipe.
Passed(p) == ~p.scored /\ p.x + PIPE_WIDTH < BIRD_X_POS

\* Mutant of PipeStep: the high score is not updated.
PipeStepNoHigh(s, i, gap) ==
    LET p == MovePipe(s.pipes[i], gap)
    IN IF Passed(p)
       THEN [s EXCEPT !.pipes[i] = [p EXCEPT !.scored = TRUE],
                      !.score = @ + 1]
       ELSE [s EXCEPT !.pipes[i] = p]

\* One iteration of the pipe loop: move, recycle, score.
PipeStep(s, i, gap) ==
    LET p == MovePipe(s.pipes[i], gap)
    IN IF Passed(p)
       THEN [s EXCEPT !.pipes[i] = [p EXCEPT !.scored = TRUE],
                      !.score = @ + 1,
                      !.highScore = IF s.score + 1 > @ THEN s.score + 1 ELSE @]
       ELSE [s EXCEPT !.pipes[i] = p]

\* The pipe loop, from slot i on.
RECURSIVE PipeLoop(_, _, _)
PipeLoop(s, i, gaps) ==
    IF i >= NUM_PIPES THEN s ELSE PipeLoop(PipeStep(s, i, gaps[i]), i + 1, gaps)

\* The bird is out of the vertical bounds.
OutOfBounds(y) == y < 0 \/ y + F(BIRD_HEIGHT) > F(SCREEN_HEIGHT - GROUND_HEIGHT)

\* Mutant of HitsPipe: the bird's height is forgotten in the lower test.
HitsPipeNoHeight(y, p) ==
    /\ BIRD_X_POS + BIRD_WIDTH > p.x
    /\ BIRD_X_POS < p.x + PIPE_WIDTH
    /\ \/ y < F(p.gap_y - PIPE_GAP_HEIGHT \div 2)
       \/ y > F(p.gap_y + PIPE_GAP_HEIGHT \div 2)

\* The bird overlaps pipe p horizontally and is not inside its gap.
HitsPipe(y, p) ==
    /\ BIRD_X_POS + BIRD_WIDTH > p.x
    /\ BIRD_X_POS < p.x + PIPE_WIDTH
    /\ \/ y < F(p.gap_y - PIPE_GAP_HEIGHT \div 2)
       \/ y + F(BIRD_HEIGHT) > F(p.gap_y + PIPE_GAP_HEIGHT \div 2)

\* checkCollisions().
checkCollisions(s) ==
    IF OutOfBounds(s.bird_y) \/ \E i \in Slots : HitsPipe(s.bird_y, s.pipes[i])
    THEN [s EXCEPT !.gameState = "GAME_OVER"]
    ELSE s

\* updateGameLogic() of the obstacle runner.
BirdUpdateGameLogic(s, left, right, gaps) ==
    checkCollisions(PipeLoop(Physics(Flap(s, AnyActive(left, right))), 0, gaps))

\* setup() of the obstacle runner: setupGame().
BirdSetup ==
    \E gaps \in [Slots -> GapDraws] :
        bird = [setupGame(BirdStatic, gaps) EXCEPT !.pc = "loop"]

\* loop(), case START_SCREEN.
BirdStartScreen ==
    /\ bird.pc = "loop"
    /\ bird.gameState = "START_SCREEN"
    /\ \E left \in BOOLEAN, right \in BOOLEAN :
         /\ bird' = IF AnyActive(left, right)
                    THEN [bird EXCEPT !.gameState = "PLAYING", !.pc = "wait"]
                    ELSE bird
         /\ env' = Read(env, left, right)
    /\ UNCHANGED pong

\* The busy-wait that follows an input-triggered transition.
BirdWaitRelease ==
    /\ bird.pc = "wait"
    /\ \E left \in BOOLEAN, right \in BOOLEAN :
         /\ bird' = [bird EXCEPT !.pc = IF AnyActive(left, right) THEN "wait" ELSE "loop"]
         /\ env' = Read(env, left, right)
    /\ UNCHANGED pong

\* loop(), case PLAYING: updateGameLogic().  random() is drawn only for a
\* slot that the tick recycles.
BirdTick(left, right) ==
    \E gaps \in [Slots -> GapDraws] :
        /\ \A i \in Slots : ~Recycles(bird, i) => gaps[i] = bird.pipes[i].gap_y
        /\ bird' = BirdUpdateGameLogic(bird, left, right, gaps)

\* The tick sees a press-edge: button_is_pressed && !button_was_pressed.
FlapEdge(s, left, right) == AnyActive(left, right) /\ ~s.button_was_pressed

\* The environment after a tick of play that read left and right.
Flown(e, s, left, right) ==
    [Read(e, left, right) EXCEPT !.ticks = @ + 1,
                                 !.idle = IF FlapEdge(s, left, right) THEN 0 ELSE @ + 1]

\* A tick of play among the first MaxFlight of a game.
BirdPlaying ==
    /\ bird.pc = "loop"
    /\ bird.gameState = "PLAYING"
    /\ env.ticks < MaxFlight
    /\ \E left \in BOOLEAN, right \in BOOLEAN :
         /\ AnyActive(left, right) /\ ~bird.button_was_pressed
               => bird.bird_y_velocity >= MinFlapFall
         /\ BirdTick(left, right)
         /\ env' = Flown(env, bird, left, right)
    /\ UNCHANGED pong

\* A tick of play of a game in which the player stops flapping after the
\* first MaxClimb ticks.
BirdFalling ==
    /\ bird.pc = "loop"
    /\ bird.gameState = "PLAYING"
    /\ env.ticks < MaxFlight
    /\ \E left \in BOOLEAN, right \in BOOLEAN :
         /\ FlapEdge(bird, left, right) => env.ticks < MaxClimb
         /\ BirdTick(left, right)
         /\ env' = Flown(env, bird, left, right)
    /\ UNCHANGED pong

\* loop(), case GAME_OVER.
BirdGameOver ==
    /\ bird.pc = "loop"
    /\ bird.gameState = "GAME_OVER"
    /\ \E left \in BOOLEAN, right \in BOOLEAN :
         IF AnyActive(left, right)
         THEN /\ \E gaps \in [Slots -> GapDraws] :
                   bird' = [setupGame(bird, gaps)
                               EXCEPT !.gameState = "PLAYING", !.pc = "wait"]
              /\ env' = NewGame(left, right)
         ELSE /\ bird' = bird
              /\ env' = Read(env, left, right)
    /\ UNCHANGED pong

BirdInit == BirdSetup /\ pong = PongStatic /\ env = EnvZero

BirdNext == BirdStartScreen \/ BirdWaitRelease \/ BirdPlaying \/ BirdGameOver

BirdSpec == BirdInit /\ [][BirdNext]_vars

BirdFallNext == BirdStartScreen \/ BirdWaitRelease \/ BirdFalling \/ BirdGameOver

BirdFallSpec == BirdInit /\ [][BirdFallNext]_vars

PongInit == PongSetup /\ bird = BirdStatic /\ env = EnvZero

PongNext == PongStartScreen \/ PongWaitRelease \/ PongPlaying \/ PongGameOver

PongSpec == PongInit /\ [][PongNext]_vars

PongRallyNext == PongStartScreen \/ PongWaitRelease \/ PongRallyPlaying

PongRallySpec == PongInit /\ [][PongRallyNext]_vars

\* The device runs one of the two sketches, from its setup() on: whole games
\* of the paddle-ball player of PongSpec, or of the obstacle-runner player of
\* BirdFallSpec.
ArcadeInit ==
    /\ env = EnvZero
    /\ \/ PongSetup /\ bird = BirdStatic
       \/ BirdSetup /\ pong = PongStatic

ArcadeNext ==
    \/ PongStartScreen \/ PongWaitRelease \/ PongPlaying \/ PongGameOver
    \/ BirdStartScreen \/ BirdWaitRelease \/ BirdFalling \/ BirdGameOver

ArcadeSpec == ArcadeInit /\ [][ArcadeNext]_vars

\* ---- the claims --------------------------------------------------------
\* The state is at the start of a tick of play of the paddle-ball sketch.
PongInPlay == pong.pc = "loop" /\ pong.gameState = "PLAYING"

\* The ball of the tick after its move, before the bounces and the scoring.
MovedX == pong.ball_x + pong.ball_vx
MovedY == pong.ball_y + pong.ball_vy

\* What happens to the moved ball in the tick that leads to the next state.
TickWall == MovedX < F(0) \/ MovedX > F(310)
TickPlayerContact == PlayerContact(pong.ball_vy, MovedX, MovedY, pong'.player_x)
TickAiContact ==
    AiContact(IF TickPlayerContact THEN -pong.ball_vy ELSE pong.ball_vy,
              MovedX, MovedY, pong'.ai_x)
TickServe == MovedY > F(170) \/ MovedY < F(0)

Sign(v) == IF v > 0 THEN 1 ELSE IF v < 0 THEN -1 ELSE 0

\* C1: in every reachable state of the paddle-ball sketch player_x and ai_x
\* lie in [0, 240].
C1_PaddlesOnScreen ==
    /\ F(0) <= pong.player_x /\ pong.player_x <= F(240)
    /\ F(0) <= pong.ai_x /\ pong.ai_x <= F(240)

\* C1 witness: play in which the player has steered to the left edge and the
\* AI paddle is held at 0 by its constraint.
C1_Witness ==
    pong.gameState = "PLAYING" /\ env.ticks > 0 /\ pong.player_x = F(0) /\ pong.ai_x = F(0)

\* C2: the session is GAME_OVER only with a score of 5 or more, and a tick of
\* play ends in GAME_OVER exactly when a score is 5 or more after its update.
C2_GameOverExactlyAtFive ==
    /\ [](pong.gameState = "GAME_OVER" => (pong.playerScore >= 5 \/ pong.aiScore >= 5))
    /\ [][PongInPlay =>
            (pong'.gameState = "GAME_OVER" <=> (pong'.playerScore >= 5 \/ pong'.aiScore >= 5))]_vars

\* C2 witness: a game has ended.
C2_Witness == pong.gameState = "GAME_OVER" /\ pong.aiScore = 5 /\ pong.playerScore < 5

\* C3: a tick of play adds 1 to aiScore alone when the moved ball has y > 170,
\* 1 to playerScore alone when it has y < 0, and changes no score otherwise.
C3_OneScorePerTick ==
    [][PongInPlay =>
        /\ MovedY > F(170) =>
              pong'.aiScore = pong.aiScore + 1 /\ pong'.playerScore = pong.playerScore
        /\ MovedY < F(0) =>
              pong'.playerScore = pong.playerScore + 1 /\ pong'.aiScore = pong.aiScore
        /\ ~(MovedY > F(170)) /\ ~(MovedY < F(0)) =>
              pong'.aiScore = pong.aiScore /\ pong'.playerScore = pong.playerScore]_vars

\* C3 witness: play in which each side has scored.
C3_Witness == pong.gameState = "PLAYING" /\ pong.aiScore >= 1 /\ pong.playerScore >= 1

\* C4 as stated: in a tick of play without paddle contact the sign of ball_vx
\* flips iff the moved ball is past x = 0 or x = 310, and ball_vx is unchanged
\* in every other such tick.
C4_Original ==
    [][PongInPlay /\ ~TickPlayerContact /\ ~TickAiContact =>
        /\ (Sign(pong'.ball_vx) = -Sign(pong.ball_vx) /\ pong.ball_vx # 0) <=> TickWall
        /\ ~TickWall => pong'.ball_vx = pong.ball_vx]_vars

\* C4 amended: in a tick of play without paddle contact and without a serve,
\* ball_vx is negated if the moved ball is past x = 0 or x = 310 and is left
\* unchanged otherwise.
C4_Amended ==
    [][PongInPlay /\ ~TickPlayerContact /\ ~TickAiContact /\ ~TickServe =>
        /\ TickWall => pong'.ball_vx = -pong.ball_vx
        /\ ~TickWall => pong'.ball_vx = pong.ball_vx]_vars

\* C4 witness: play with the ball past a side wall, heading back in.
C4_Witness ==
    /\ pong.gameState = "PLAYING"
    /\ \/ pong.ball_x < F(0) /\ pong.ball_vx > 0
       \/ pong.ball_x > F(310) /\ pong.ball_vx < 0

\* C5 as stated: over every step the scores never decrease, and they change
\* only in a step taken in PLAYING.
C5_Original ==
    [][/\ pong'.playerScore >= pong.playerScore
       /\ pong'.aiScore >= pong.aiScore
       /\ (pong'.playerScore # pong.playerScore \/ pong'.aiScore # pong.aiScore)
             => pong.gameState = "PLAYING"]_vars

\* C5 amended: a tick of play never decreases a score; outside PLAYING the
\* scores change only when an active input on START_SCREEN or GAME_OVER runs
\* resetGame, which sets both to 0.
C5_Amended ==
    [][IF pong.gameState = "PLAYING"
       THEN pong'.playerScore >= pong.playerScore /\ pong'.aiScore >= pong.aiScore
       ELSE \/ pong'.playerScore = pong.playerScore /\ pong'.aiScore = pong.aiScore
            \/ /\ pong.pc = "loop" /\ env'.active
               /\ pong'.playerScore = 0 /\ pong'.aiScore = 0]_vars

\* C5 witness: the reset that follows a finished game has run.
C5_Witness ==
    /\ pong.gameState = "START_SCREEN" /\ pong.pc = "wait"
    /\ pong.playerScore = 0 /\ pong.aiScore = 0

\* C6 as stated: across a tick of play the sign of ball_vy changes only if
\* the ball touched the player's paddle or the AI paddle in that tick.
C6_Original ==
    [][PongInPlay /\ Sign(pong'.ball_vy) # Sign(pong.ball_vy) =>
        TickPlayerContact \/ TickAiContact]_vars

\* C6 amended: across a tick of play the sign of ball_vy changes only if the
\* ball touched a paddle in that tick or the tick scored and served.
C6_Amended ==
    [][PongInPlay /\ Sign(pong'.ball_vy) # Sign(pong.ball_vy) =>
        TickPlayerContact \/ TickAiContact \/ TickServe]_vars

\* C6 witness: the ball at the player's row, sent back up by the paddle.
C6_Witness ==
    pong.gameState = "PLAYING" /\ pong.ball_vy < 0 /\ pong.ball_y + F(10) >= F(158)

\* C7 as stated: across a tick of play the sign of ball_vx changes only if
\* the moved ball is past x = 0 or x = 310.
C7_Original ==
    [][PongInPlay /\ Sign(pong'.ball_vx) # Sign(pong.ball_vx) => TickWall]_vars

\* C7 amended: across a tick of play the sign of ball_vx changes only if the
\* moved ball is past x = 0 or x = 310, or the ball touched the player's
\* paddle (spin), or the tick scored and served.
C7_Amended ==
    [][PongInPlay /\ Sign(pong'.ball_vx) # Sign(pong.ball_vx) =>
        TickWall \/ TickPlayerContact \/ TickServe]_vars

\* C7 witness: the ball just sent back by the player's paddle, left of the
\* paddle's centre, with a leftward speed that only the spin gives.
C7_Witness ==
    /\ pong.gameState = "PLAYING" /\ pong.ball_vy < 0 /\ pong.ball_y + F(10) >= F(158)
    /\ F(0) <= pong.ball_x /\ pong.ball_x <= F(310)
    /\ pong.ball_x < pong.player_x + F(40) /\ pong.ball_vx < -F(3)

\* C8: a START_SCREEN tick that reads an input active leads to PLAYING with
\* both scores 0, the ball at (160, 85), |ball_vx| in {2, 3} and ball_vy in
\* {3, -3}; a START_SCREEN tick that reads none active stays in START_SCREEN.
C8_StartToPlaying ==
    [][pong.pc = "loop" /\ pong.gameState = "START_SCREEN" =>
        IF env'.active
        THEN /\ pong'.gameState = "PLAYING"
             /\ pong'.playerScore = 0 /\ pong'.aiScore = 0
             /\ pong'.ball_x = F(160) /\ pong'.ball_y = F(85)
             /\ pong'.ball_vx \in {F(2), F(3), -F(2), -F(3)}
             /\ pong'.ball_vy \in {F(3), -F(3)}
        ELSE pong'.gameState = "START_SCREEN"]_vars

\* C8 witness: PLAYING just entered from START_SCREEN by a press.
C8_Witness ==
    /\ pong.gameState = "PLAYING" /\ pong.pc = "wait" /\ env.active
    /\ pong.ball_vy = -F(3) /\ pong.ball_vx = F(3)

\* The state of the entities that setupGame() leaves.
FreshGame(b) ==
    /\ b.pipes[0].x = 320 /\ b.pipes[1].x = 500
    /\ ~b.pipes[0].scored /\ ~b.pipes[1].scored
    /\ b.bird_y = F(85) /\ b.bird_y_velocity = 0 /\ b.score = 0

\* C9: whenever the obstacle runner enters PLAYING, from START_SCREEN or from
\* GAME_OVER, the entities are in the setupGame state.
C9_PlayingStartsFresh ==
    [][bird.gameState # "PLAYING" /\ bird'.gameState = "PLAYING" => FreshGame(bird')]_vars

\* C9 witness: PLAYING just entered from GAME_OVER, after a game that scored.
C9_Witness ==
    bird.gameState = "PLAYING" /\ bird.pc = "wait" /\ bird.highScore >= 1

\* The state is at the start of a tick of play of the obstacle runner.
BirdInPlay == bird.pc = "loop" /\ bird.gameState = "PLAYING"

\* Slot i is recycled in the tick that leads to the next state.
TickRecycles(i) == bird.pipes[i].x - 2 < -40

\* C10: in a tick of play a recycled slot ends with its flag false, a set
\* flag stays set unless the slot is recycled (so it is set at most once
\* between two recycles), and score grows by the number of flags newly set.
C10_ScoredOncePerPass ==
    [][BirdInPlay =>
        /\ \A i \in {0, 1} :
              /\ TickRecycles(i) => ~bird'.pipes[i].scored
              /\ bird.pipes[i].scored /\ ~TickRecycles(i) => bird'.pipes[i].scored
        /\ bird'.score = bird.score
              + Cardinality({i \in {0, 1} : ~bird.pipes[i].scored /\ bird'.pipes[i].scored})]_vars

\* C10 witness: slot 0 has been scored and then recycled.
C10_Witness ==
    /\ bird.gameState = "PLAYING" /\ env.ticks > 0
    /\ bird.pipes[0].x = 320 /\ ~bird.pipes[0].scored /\ bird.score = 1

\* The bird at height y (on the grid) is outside the gap band of a pipe at x
\* with gap centre g that it overlaps horizontally.
MissesGap(y, x, g) ==
    /\ 80 > x /\ 60 < x + 40
    /\ y < F(g - 40) \/ y + F(20) > F(g + 40)

\* C11: a tick of play of the obstacle runner ends in GAME_OVER iff, after
\* the tick's movement, the bird is above 0 or below 160 with its height, or
\* it overlaps a pipe horizontally while outside that pipe's gap band.
C11_CollisionIff ==
    [][BirdInPlay =>
        (bird'.gameState = "GAME_OVER" <=>
            \/ bird'.bird_y < F(0)
            \/ bird'.bird_y + F(20) > F(160)
            \/ \E i \in {0, 1} :
                  MissesGap(bird'.bird_y, bird'.pipes[i].x, bird'.pipes[i].gap_y))]_vars

\* C11 witness: the game ended on a pipe, the bird inside the vertical bounds.
C11_Witness ==
    /\ bird.gameState = "GAME_OVER"
    /\ bird.bird_y >= F(0) /\ bird.bird_y + F(20) <= F(160)
    /\ \E i \in {0, 1} : MissesGap(bird.bird_y, bird.pipes[i].x, bird.pipes[i].gap_y)

\* C11 witness of the other case: the bird flies on inside the gap band of a
\* pipe that it overlaps.
C11_InsideGap ==
    /\ bird.gameState = "PLAYING" /\ env.ticks > 0
    /\ \E i \in {0, 1} :
          /\ 80 > bird.pipes[i].x /\ 60 < bird.pipes[i].x + 40
          /\ bird.bird_y >= F(bird.pipes[i].gap_y - 40)
          /\ bird.bird_y + F(20) <= F(bird.pipes[i].gap_y + 40)

\* The larger of two integers.
Max(a, b) == IF a >= b THEN a ELSE b

\* C12: highScore never decreases over any step of the obstacle runner, a
\* tick in which score grew leaves highScore at the larger of the previous
\* highScore and the new score, and highScore >= score in every state.
C12_HighScoreMonotone ==
    /\ [](bird.highScore >= bird.score)
    /\ [][/\ bird'.highScore >= bird.highScore
          /\ bird'.score > bird.score =>
                bird'.highScore = Max(bird.highScore, bird'.score)]_vars

\* C12 witness: a later game has just scored its first point under the high
\* score of 2 that an earlier game left.
C12_Witness ==
    /\ bird.gameState = "PLAYING" /\ bird.pc = "loop"
    /\ bird.score = 1 /\ bird.highScore = 2

\* C13: a bird in play survives at most 45 ticks in a row without a flap,
\* so that from any state of play GAME_OVER is at most 46 flapless ticks
\* away; and a game in which no tick has flapped is over by its 19th tick.
C13_FallEnds ==
    bird.gameState = "PLAYING" =>
        /\ env.idle <= 45
        /\ env.idle = env.ticks => env.ticks <= 18

\* C13 witness: a game that ended at its 19th tick, no tick having flapped.
C13_Witness == bird.gameState = "GAME_OVER" /\ env.ticks = 19 /\ env.idle = 19

\* C13 witness of the longest fall: a game that ended at the 46th tick after
\* a flap.
C13_LongestFall == bird.gameState = "GAME_OVER" /\ env.idle = 46 /\ env.ticks > 46

\* C14: in every state of the obstacle runner each pipe has its gap centre in
\* [60, 100], so that its gap [gap_y - 40, gap_y + 40] lies inside [0, 160].
C14_GapInBand ==
    \A i \in {0, 1} :
        /\ 60 <= bird.pipes[i].gap_y /\ bird.pipes[i].gap_y <= 100
        /\ 0 <= bird.pipes[i].gap_y - 40 /\ bird.pipes[i].gap_y + 40 <= 160

\* C14 witness: slot 0 was passed and recycled, and its new gap is the
\* highest-numbered draw.
C14_Witness ==
    /\ bird.gameState = "PLAYING" /\ bird.score >= 1
    /\ ~bird.pipes[0].scored /\ bird.pipes[0].gap_y = 99

\* C15: the paddle-ball sketch leaves GAME_OVER only for START_SCREEN, the
\* obstacle runner only for PLAYING with the game reset, and both only on a
\* reading that finds an input active after a reading that found none.
C15_LeavesOnPressEdge ==
    [][/\ pong.gameState = "GAME_OVER" /\ pong'.gameState # "GAME_OVER" =>
             pong'.gameState = "START_SCREEN" /\ ~env.active /\ env'.active
       /\ bird.gameState = "GAME_OVER" /\ bird'.gameState # "GAME_OVER" =>
             /\ bird'.gameState = "PLAYING" /\ FreshGame(bird')
             /\ ~env.active /\ env'.active]_vars

\* What press consumption asks of a step that takes a sketch from g to h:
\* a transition out of START_SCREEN or GAME_OVER is taken by a tick on an
\* active reading and enters the wait; in the wait nothing but the wait's end
\* changes, and it ends exactly on a reading that finds both inputs inactive;
\* and START_SCREEN is left only by a reading that follows an inactive one.
Consumes(g, h) ==
    /\ g.gameState \in {"START_SCREEN", "GAME_OVER"} /\ h.gameState # g.gameState =>
          g.pc = "loop" /\ h.pc = "wait" /\ env'.active
    /\ g.pc = "wait" =>
          /\ h = [g EXCEPT !.pc = h.pc]
          /\ h.pc = "loop" <=> ~env'.active
    /\ g.gameState = "START_SCREEN" /\ h.gameState = "PLAYING" => ~env.active

\* C16: after every input-triggered session transition no tick runs until
\* both inputs have been read inactive, in both sketches, so that one
\* continuous press causes at most one such transition (GAME_OVER to
\* START_SCREEN to PLAYING takes two presses).
C16_PressConsumed == [][Consumes(pong, pong') /\ Consumes(bird, bird')]_vars

\* C16 witness: the paddle-ball sketch waits in START_SCREEN for the release
\* of the press that left GAME_OVER.
C16_Witness ==
    pong.gameState = "START_SCREEN" /\ pong.pc = "wait" /\ env.active /\ env.ticks = 0

\* C16 witness in the obstacle runner: the wait for the release of the press
\* that restarted a game that ended with the input held.
C16_BirdWaits ==
    bird.gameState = "PLAYING" /\ bird.pc = "wait" /\ env.active /\ bird.button_was_pressed

\* The ball at x is outside the walls.
Outside(x) == x < F(0) \/ x > F(310)

\* C17: a tick of play that starts with the ball outside the walls ends with
\* it inside: the ball is never outside at the end of two consecutive ticks.
C17_OutsideOneTick ==
    [][PongInPlay /\ Outside(pong.ball_x) => ~Outside(pong'.ball_x)]_vars

\* The distance of a from b.
Dist(a, b) == IF a >= b THEN a - b ELSE b - a

\* The AI's target of the tick that leads to the next state: the ball's x
\* less half a paddle, clamped to [0, 240].
TickTarget ==
    LET t == pong.ball_x - F(40)
    IN IF t < F(0) THEN F(0) ELSE IF t > F(240) THEN F(240) ELSE t

\* C18: in every tick of play ai_x changes by at most 4.2, and its distance
\* to the tick's target after the step is at most the larger of its distance
\* before the step and 4.2.
C18_AiTracks ==
    [][PongInPlay =>
        /\ Dist(pong'.ai_x, pong.ai_x) <= 42
        /\ Dist(pong'.ai_x, TickTarget) <= Max(Dist(pong.ai_x, TickTarget), 42)]_vars

\* C18 witness: the AI paddle has moved and sits within one step of the
\* ball's target position, off it and off both limits.
C18_Witness ==
    /\ pong.gameState = "PLAYING" /\ env.ticks > 0 /\ pong.ai_x # F(120)
    /\ pong.ai_x > F(0) /\ pong.ai_x < F(240)
    /\ pong.ai_x # pong.ball_x - F(40)
    /\ Dist(pong.ai_x, pong.ball_x - F(40)) < 42

\* C19: neither score of the paddle-ball sketch ever exceeds 5, and in
\* GAME_OVER exactly one score is 5 and the other at most 4, so the message
\* chosen by playerScore > aiScore names the side that reached 5.
C19_OneWinner ==
    /\ pong.playerScore <= 5 /\ pong.aiScore <= 5
    /\ pong.gameState = "GAME_OVER" =>
          /\ \/ pong.playerScore = 5 /\ pong.aiScore <= 4
             \/ pong.aiScore = 5 /\ pong.playerScore <= 4
          /\ pong.playerScore > pong.aiScore <=> pong.playerScore = 5

\* C19 witness: a game that the player won.
C19_Witness ==
    pong.gameState = "GAME_OVER" /\ pong.playerScore = 5 /\ pong.playerScore > pong.aiScore

\* C20: a tick of play that reads an input active after a sample that read
\* both inactive (the previous tick of play, or the release seen by the wait
\* that precedes the first tick) flaps: its velocity is -5.0 plus gravity;
\* and button_was_pressed is false whenever PLAYING is entered.
C20_EveryPressFlaps ==
    /\ [][BirdInPlay /\ ~env.active /\ env'.active =>
             bird'.bird_y_velocity = -F(5) + 3]_vars
    /\ [][bird.gameState # "PLAYING" /\ bird'.gameState = "PLAYING" =>
             ~bird'.button_was_pressed]_vars

====
